---- MODULE Spec2Model ----
(***************************************************************************)
(* Workflow scheduler (src/src/core/workflow_engine.py) and render         *)
(* supervisor (src/src/manim_engine/render_manager.py) of clipturbo.       *)
(*                                                                         *)
(* Both run on one asyncio event loop: a coroutine runs without            *)
(* interruption from one suspension point to the next, so every action     *)
(* below is the code between two suspension points.                        *)
(***************************************************************************)
EXTENDS Integers, Sequences, FiniteSets, TLC

VARIABLES
    \* ---- WorkflowEngine: the one workflow of active_workflows ----
    steps,            \* workflow.steps: the dict in insertion order, <<[id, dependencies]>>
    stepStatus,       \* step.status of every step
    step_error,       \* step.error of every step is set (not None)
    step_end_time,    \* step.end_time of every step is set (not None)
    wfStatus,         \* workflow.status ("absent": no workflow was created)
    error_message,    \* workflow.error_message
    end_time,         \* workflow.end_time is set (not None); total_duration is
                      \* assigned end_time - start_time in the next statement
    context,          \* workflow.context: the keys whose value is not None
    pc,               \* position of the task running _execute_workflow
    executed_steps,   \* the local executed_steps of _execute_workflow
    ready_steps,      \* the local ready_steps of the current iteration
    content_input,    \* the content_input create_video_workflow was called with
    output_files,     \* workflow.output_files
    step_result,      \* step.result of every step
    tasks,            \* the tasks of the current iteration that have not run
                      \* yet, by their steps, in the order they were created
    cancelled_at,     \* history: where the workflow was when cancel_workflow first returned True
    \* ---- RenderManager ----
    jobs,             \* every RenderJob object, in submission order
    render_queue,     \* self.render_queue: indexes into jobs
    active_jobs,      \* self.active_jobs: job id -> index into jobs
    completed_jobs,   \* self.completed_jobs: job id -> RenderResult
    current_renders,  \* self.current_renders
    max_concurrent_renders, \* self.max_concurrent_renders
    monitoring_task,  \* self._monitoring_task: "running" or "cancelled"
    launchOrder,      \* history: the jobs in the order _start_render_job took them
    handled,          \* history: jobs _handle_job_completion was called on
    released          \* history: jobs whose slot line 341 gave back

wfVars == <<steps, stepStatus, step_error, step_end_time, step_result, wfStatus,
            error_message, end_time, context, pc, executed_steps, ready_steps,
            tasks, cancelled_at, content_input, output_files>>
rmVars == <<jobs, render_queue, active_jobs, completed_jobs, current_renders,
            max_concurrent_renders, monitoring_task, launchOrder, handled,
            released>>
vars == <<wfVars, rmVars>>

(***************************************************************************)
(* Bounds                                                                  *)
(***************************************************************************)
MaxJobs == 3
MaxLimit == 2

Range(f) == {f[x] : x \in DOMAIN f}

(***************************************************************************)
(* Step graphs                                                             *)
(***************************************************************************)
Step(id, deps) == [id |-> id, dependencies |-> deps]

\* Mutant: parameter_preparation depends on the content step only.
BuiltinSteps_ParallelParameters(use_ai_generation) ==
    LET content == IF use_ai_generation THEN "content_generation"
                   ELSE "content_preparation"
    IN << [id |-> content, dependencies |-> {}],
          [id |-> "template_selection", dependencies |-> {content}],
          [id |-> "parameter_preparation", dependencies |-> {content}],
          [id |-> "scene_creation", dependencies |-> {"parameter_preparation"}],
          [id |-> "video_rendering", dependencies |-> {"scene_creation"}],
          [id |-> "post_processing", dependencies |-> {"video_rendering"}] >>

\* create_video_workflow: the steps dict it builds for a topic string
\* (use_ai_generation) or for a content dict.
BuiltinSteps(use_ai_generation) ==
    LET content == IF use_ai_generation THEN "content_generation"
                   ELSE "content_preparation"
    IN << Step(content, {}),
          Step("template_selection", {content}),
          Step("parameter_preparation", {content, "template_selection"}),
          Step("scene_creation", {"parameter_preparation"}),
          Step("video_rendering", {"scene_creation"}),
          Step("post_processing", {"video_rendering"}) >>

\* content_input: a topic (str) or a whole video content (dict); NoInput
\* for a workflow that create_video_workflow did not build.
ContentInputs == {[type |-> "str"], [type |-> "dict"]}
NoInput == [type |-> "none"]
isinstance(x, t) == x.type = t

\* Mutant: the AI graph is taken for a dict.
use_ai_generation_ForDict(input) == isinstance(input, "dict")

\* Line 113.
use_ai_generation(input) == isinstance(input, "str")

\* create_video_workflow: the graph for an input.
create_video_workflow(input) == BuiltinSteps(use_ai_generation(input))

BuiltinIds ==
    {"content_generation", "content_preparation", "template_selection",
     "parameter_preparation", "scene_creation", "video_rendering",
     "post_processing"}

\* Step graphs _execute_workflow is run on besides the two built-in ones: two
\* independent roots joined by a third step, a cycle beside a root, a
\* dependency on a name that is no step of the graph, a cycle alone.
OtherGraphs ==
    { << Step("a", {}), Step("b", {}), Step("c", {"a", "b"}) >>,
      << Step("a", {"b"}), Step("b", {"a"}), Step("c", {}) >>,
      << Step("a", {"zz"}), Step("b", {}) >>,
      << Step("a", {"b"}), Step("b", {"a"}) >> }

Graphs == {BuiltinSteps(TRUE), BuiltinSteps(FALSE)} \cup OtherGraphs

StepIds == {steps[i].id : i \in DOMAIN steps}
StepDeps(s) == (CHOOSE st \in Range(steps) : st.id = s).dependencies
IsBuiltin == steps \in {BuiltinSteps(TRUE), BuiltinSteps(FALSE)}

(***************************************************************************)
(* Step handlers.  The scheduler treats a handler as a coroutine that      *)
(* returns or raises.  The built-in handlers read the shared context: a    *)
(* key left None by a failed earlier step makes the handler raise before   *)
(* it reaches any await.                                                   *)
(***************************************************************************)
ContextKeys ==
    {"video_content", "selected_template", "template_parameters",
     "scene_class", "render_job_id"}

\* The context keys a built-in handler dereferences.
HandlerNeeds(s) ==
    CASE s = "template_selection"    -> {"video_content"}
      [] s = "parameter_preparation" -> {"video_content", "selected_template"}
      [] s = "scene_creation"        -> {"selected_template", "template_parameters"}
      [] s = "video_rendering"       -> {"scene_class"}
      [] s = "post_processing"       -> {"video_content"}
      [] OTHER                       -> {}

\* The context key a built-in handler sets before it returns.
HandlerSets(s) ==
    CASE s \in {"content_generation", "content_preparation"} -> {"video_content"}
      [] s = "template_selection"    -> {"selected_template"}
      [] s = "parameter_preparation" -> {"template_parameters"}
      [] s = "scene_creation"        -> {"scene_class"}
      [] s = "video_rendering"       -> {"render_job_id"}
      [] OTHER                       -> {}

\* The handlers whose collaborator (AI service, parameter validation, scene
\* creation, render supervisor) can make them raise although the context
\* holds what they read.
HandlerMayRaise(s) ==
    s \notin {"content_preparation", "template_selection", "post_processing"}

\* The outcomes ("completed" when the handler returns, "failed" when it
\* raises) the handler of step s can have on context ctx.
HandlerOutcomes(s, ctx) ==
    IF s \notin BuiltinIds THEN {"completed", "failed"}
    ELSE IF ~(HandlerNeeds(s) \subseteq ctx) THEN {"failed"}
    ELSE IF HandlerMayRaise(s) THEN {"completed", "failed"}
    ELSE {"completed"}

\* Whether the handler reaches an await that suspends its task: the AI call
\* of content_generation, the polling sleep of video_rendering, and every
\* handler that is not one of the built-in ones.
Suspends(s, ctx) ==
    \/ s \notin BuiltinIds
    \/ s = "content_generation"
    \/ s = "video_rendering" /\ HandlerNeeds(s) \subseteq ctx

(***************************************************************************)
(* _execute_workflow                                                       *)
(***************************************************************************)
SeqToSet(q) == {q[i] : i \in DOMAIN q}

\* Mutant: a step is taken again until it is completed.
StepIsReady_UntilCompleted(st, executed) ==
    /\ stepStatus[st.id] \notin {"completed", "running"}
    /\ st.dependencies \subseteq executed

\* Lines 235-240: the steps not yet executed, pending, whose dependencies
\* are all in executed_steps, in the order of the steps dict.
StepIsReady(st, executed) ==
    /\ st.id \notin executed
    /\ stepStatus[st.id] = "pending"
    /\ st.dependencies \subseteq executed

ReadySteps(executed) ==
    LET sel == SelectSeq(steps, LAMBDA st : StepIsReady(st, executed))
    IN  [i \in DOMAIN sel |-> sel[i].id]

\* Mutant: only a completed step counts as executed.
ExecutedStatuses_OnlyCompleted == {"completed"}

\* Lines 265-267: the statuses with which a launched step counts as executed.
ExecutedStatuses == {"completed", "failed", "skipped"}

FailedSteps == {s \in StepIds : stepStatus[s] = "failed"}

\* Lines 244-253: the error message of an iteration with no ready step.
NoReadyMessage ==
    IF FailedSteps # {}
    THEN [kind |-> "steps_failed", names |-> FailedSteps]
    ELSE [kind |-> "deadlock", names |-> {}]

\* Mutant: the branch leaves the status as the scheduler set it at line 226.
NoReadyStatus_Unset == "running"

\* Lines 246, 251: the status an iteration with no ready step sets.
NoReadyStatus == "failed"

\* Lines 273-274: the status the workflow is left with after the loop.
FinalStatus(status) == IF status = "running" THEN "completed" ELSE status

\* Mutant: each task is awaited before the next one is created.
CreatedTasks_FirstOnly(ready) == IF ready = <<>> THEN {} ELSE {Head(ready)}

\* Lines 256-262: the steps that have a task when the scheduler suspends at
\* gather: one task is created for every ready step before the await.
CreatedTasks(ready) == SeqToSet(ready)

\* One pass from the while condition (line 233) to the next suspension: the
\* await of gather (line 262), or the end of the coroutine (line 277).
RunLoop(status, executed) ==
    LET ready == ReadySteps(executed) IN
    IF Cardinality(executed) < Len(steps) /\ ready # <<>>
    THEN \* lines 255-262: one task per ready step, then await them all
         /\ ready_steps' = ready
         /\ tasks' = SelectSeq(ready, LAMBDA s : s \in CreatedTasks(ready))
         /\ pc' = "gather"
         /\ wfStatus' = status
         /\ UNCHANGED <<error_message, end_time>>
    ELSE /\ ready_steps' = <<>>
         /\ tasks' = <<>>
         /\ pc' = "done"
         /\ end_time' = TRUE
         /\ IF Cardinality(executed) < Len(steps)
            THEN \* lines 242-253, then 270-277
                 /\ wfStatus' = FinalStatus(NoReadyStatus)
                 /\ error_message' = NoReadyMessage
            ELSE \* the loop condition is false: lines 270-277
                 /\ wfStatus' = FinalStatus(status)
                 /\ UNCHANGED error_message

\* The task created at line 217 runs for the first time: lines 225-231 and
\* the first pass of the loop.
ExecuteWorkflowStart ==
    /\ pc = "scheduled"
    /\ executed_steps' = {}
    /\ RunLoop("running", {})
    /\ UNCHANGED <<content_input, output_files, steps, stepStatus, step_error,
                   step_end_time, step_result, context,
                   cancelled_at, rmVars>>

\* gather returns when every task of the iteration is done: lines 265-267
\* and the next pass of the loop.
ExecuteWorkflowResume ==
    /\ pc = "gather"
    /\ tasks = <<>>
    /\ \A s \in SeqToSet(ready_steps) : stepStatus[s] # "running"
    /\ LET executed == executed_steps \cup
               {s \in SeqToSet(ready_steps) : stepStatus[s] \in ExecutedStatuses}
       IN  /\ executed_steps' = executed
           /\ RunLoop(wfStatus, executed)
    /\ UNCHANGED <<content_input, output_files, steps, stepStatus, step_error,
                   step_end_time, step_result, context,
                   cancelled_at, rmVars>>

(***************************************************************************)
(* _execute_step                                                           *)
(***************************************************************************)
\* Every task of the iteration has run up to its first suspension.  The
\* tasks are put on the event loop's queue together, so each runs its first
\* stretch before any awaited handler is resumed.
BatchStarted == tasks = <<>>

\* The event loop starts the tasks of one iteration in the order they were
\* created: s is the step of the first task that has not run yet.
NextTaskToStart(s) ==
    /\ pc = "gather"
    /\ tasks # <<>>
    /\ Head(tasks) = s

\* Lines 292-302 up to the await inside the handler: the step is running.
ExecuteStepBegin(s) ==
    /\ NextTaskToStart(s)
    /\ Suspends(s, context)
    /\ stepStatus' = [stepStatus EXCEPT ![s] = "running"]
    /\ tasks' = Tail(tasks)
    /\ UNCHANGED <<content_input, output_files, steps, step_error,
                   step_end_time, step_result, wfStatus, error_message,
                   end_time, context, pc,
                   executed_steps, ready_steps, cancelled_at, rmVars>>

\* _handle_post_processing, lines 491-509: the list it returns holds the
\* output file of the render job when get_job_status has one, and the
\* subtitle file when there is a script and the file could be written.
PostProcessingFiles ==
    {video \o subtitle :
        video \in (IF "render_job_id" \in context
                   THEN {<<>>, <<"output_file">>} ELSE {<<>>}),
        subtitle \in {<<>>, <<"subtitle_file">>}}

\* Line 305: step.result is what the handler returned, here its type and,
\* for a path or a list of paths, the paths; a handler that raised leaves
\* it as it was, None (line 43).
None == [type |-> "NoneType", value |-> <<>>]

HandlerResults(s, outcome) ==
    IF outcome # "completed" THEN {step_result[s]}
    ELSE IF IsBuiltin /\ s = "post_processing"
    THEN {[type |-> "list", value |-> files] : files \in PostProcessingFiles}
    ELSE IF IsBuiltin /\ s = "video_rendering"
    THEN {[type |-> "str", value |-> <<"output_file">>]}
    ELSE {[type |-> "object", value |-> <<>>]}

\* Lines 304-307 (the handler returned: completed, end time) or 311-314
\* (it raised: failed, the text of the exception, end time).
StepRecorded(s, outcome) ==
    /\ stepStatus' = [stepStatus EXCEPT ![s] = outcome]
    /\ step_error' = IF outcome = "failed"
                     THEN [step_error EXCEPT ![s] = TRUE] ELSE step_error
    /\ step_end_time' = [step_end_time EXCEPT ![s] = TRUE]
    /\ step_result' \in {[step_result EXCEPT ![s] = r] :
                            r \in HandlerResults(s, outcome)}

\* Mutant: _execute_step does not catch what the handler raises: the step
\* stays running, the exception leaves the task, gather raises it in
\* _execute_workflow and the except of line 279 ends the scheduler.
StepEnds_Propagates(s, outcome) ==
    /\ outcome \in HandlerOutcomes(s, context)
    /\ IF outcome = "failed"
       THEN /\ stepStatus' = [stepStatus EXCEPT ![s] = "running"]
            /\ wfStatus' = "failed"
            /\ error_message' = [kind |-> "exception", names |-> {s}]
            /\ end_time' = TRUE
            /\ pc' = "done"
            /\ UNCHANGED <<step_error, step_end_time, step_result, context>>
       ELSE /\ StepRecorded(s, outcome)
            /\ context' = IF IsBuiltin THEN context \cup HandlerSets(s) ELSE context
            /\ UNCHANGED <<wfStatus, error_message, end_time, pc>>
    /\ UNCHANGED <<content_input, output_files, steps, executed_steps,
                   ready_steps, cancelled_at, rmVars>>

\* The handler of step s returns or raises in the task of _execute_step.
StepEnds(s, outcome) ==
    /\ outcome \in HandlerOutcomes(s, context)
    /\ StepRecorded(s, outcome)
    /\ context' = IF outcome = "completed" /\ IsBuiltin
                  THEN context \cup HandlerSets(s) ELSE context
    /\ UNCHANGED <<content_input, output_files, steps, wfStatus, error_message,
                   end_time, pc,
                   executed_steps, ready_steps, cancelled_at, rmVars>>

\* The handler that was suspended returns or raises.
ExecuteStepEnd(s) ==
    /\ stepStatus[s] = "running"
    /\ BatchStarted
    /\ \E outcome \in {"completed", "failed"} : StepEnds(s, outcome)
    /\ UNCHANGED tasks

\* A handler that never suspends: the task runs lines 292-314 in one go.
ExecuteStepWhole(s) ==
    /\ NextTaskToStart(s)
    /\ ~Suspends(s, context)
    /\ \E outcome \in {"completed", "failed"} : StepEnds(s, outcome)
    /\ tasks' = Tail(tasks)

(***************************************************************************)
(* RenderManager: the state as one record, so that an operation that       *)
(* calls another (a tick that finalizes and launches, cancel_workflow that *)
(* calls cancel_job) composes them.  A job is modelled by its id, its      *)
(* quality, its status and its process; progress, error text and the files *)
(* on disk are left out.                                                   *)
(***************************************************************************)
RM == [jobs |-> jobs, render_queue |-> render_queue, active_jobs |-> active_jobs,
       completed_jobs |-> completed_jobs, current_renders |-> current_renders,
       launchOrder |-> launchOrder, handled |-> handled, released |-> released]

SetTables(r) ==
    /\ jobs' = r.jobs
    /\ render_queue' = r.render_queue
    /\ active_jobs' = r.active_jobs
    /\ completed_jobs' = r.completed_jobs
    /\ current_renders' = r.current_renders
    /\ launchOrder' = r.launchOrder
    /\ handled' = r.handled
    /\ released' = r.released

SetRM(r) ==
    /\ SetTables(r)
    /\ UNCHANGED <<max_concurrent_renders, monitoring_task>>

\* Job ids: generated from the clock in milliseconds or given by the caller;
\* nothing keeps two jobs from having the same one.
JobIds == {"render_1", "render_2"}

\* The members of the enum RenderQuality and their values (lines 22-27).
RenderQuality ==
    {"RenderQuality.LOW", "RenderQuality.MEDIUM", "RenderQuality.HIGH",
     "RenderQuality.PRODUCTION"}

QualityValue(m) ==
    CASE m = "RenderQuality.LOW"        -> "low_quality"
      [] m = "RenderQuality.MEDIUM"     -> "medium_quality"
      [] m = "RenderQuality.HIGH"       -> "high_quality"
      [] m = "RenderQuality.PRODUCTION" -> "production_quality"

\* self.quality_presets (lines 107-132): a dict whose keys are the members.
quality_presets ==
    [m \in RenderQuality |-> [quality |-> QualityValue(m)]]

\* What RenderConfig.quality can hold.  The dataclass does not check the
\* annotation: a member of RenderQuality, or any object with a value
\* attribute, here one whose value is itself a member.  Only with the
\* latter does the lookup of line 261 find a key, so only such jobs get a
\* process.
Member(m) == [value |-> QualityValue(m)]
Holder(m) == [value |-> m]
SubmitQualities == {Member("RenderQuality.MEDIUM"), Holder("RenderQuality.MEDIUM")}

\* _build_manim_command, line 261: quality_presets[config.quality.value]
\* raises KeyError unless the value is a key of the dict.
BuildsCommand(quality) == quality.value \in DOMAIN quality_presets

\* Process states: not spawned ("none"), running ("alive"), running with
\* the termination signal of cancel_job sent ("terminating"), and exited:
\* with code 0 and an output file, with code 0 and none, with another code,
\* or ended by the signal (returncode -15).
Running == {"alive", "terminating"}
Exited == {"exit0_file", "exit0_nofile", "exit_error", "exit_signal"}

RemoveKey(f, k) == [x \in DOMAIN f \ {k} |-> f[x]]
SetKey(f, k, v) == [x \in DOMAIN f \cup {k} |-> IF x = k THEN v ELSE f[x]]

\* _handle_job_completion, lines 339-341.
ReleaseSlot(r, o) ==
    [r EXCEPT !.active_jobs = RemoveKey(@, r.jobs[o].id),
              !.current_renders = @ - 1,
              !.released = @ \cup {o}]

\* _handle_job_completion with _create_render_result.  With exit code 0 and
\* no output file _create_render_result raises (line 371) and the except of
\* line 346 ends the call.
HandleJobCompletion(r, o) ==
    LET job == r.jobs[o]
        r0  == [r EXCEPT !.handled = @ \cup {o}]
    IN  CASE job.process = "none" ->
                ReleaseSlot(r0, o)
          [] job.process = "exit0_file" ->
                ReleaseSlot([r0 EXCEPT !.jobs[o].status = "completed",
                                       !.completed_jobs =
                                           SetKey(@, job.id, [success |-> TRUE])], o)
          [] job.process = "exit0_nofile" ->
                [r0 EXCEPT !.jobs[o].status = "completed"]
          [] job.process \in {"exit_error", "exit_signal"} ->
                ReleaseSlot([r0 EXCEPT !.jobs[o].status = "failed",
                                       !.completed_jobs =
                                           SetKey(@, job.id, [success |-> FALSE])], o)

\* _start_render_job: the job takes a slot; when the command cannot be built
\* or the process cannot be spawned, the except of line 252 finalizes it.
StartRenderJob(r, o) ==
    LET job == r.jobs[o]
        r0  == [r EXCEPT !.jobs[o].status = "running",
                         !.active_jobs = SetKey(@, job.id, o),
                         !.current_renders = @ + 1,
                         !.launchOrder = Append(@, o)]
    IN  IF BuildsCommand(job.quality) /\ job.spawns
        THEN [r0 EXCEPT !.jobs[o].process = "alive"]
        ELSE HandleJobCompletion([r0 EXCEPT !.jobs[o].status = "failed"], o)

\* Mutant: the comparison is off by one.
HasFreeSlot_OffByOne(n) == n <= max_concurrent_renders

\* _start_pending_jobs, line 224: a slot is free.
HasFreeSlot(n) == n < max_concurrent_renders

\* Mutant: render_queue.pop(), the newest job.
PopIndex_Last(queue) == Len(queue)

\* _start_pending_jobs, line 227: render_queue.pop(0), the oldest job.
PopIndex(queue) == 1

RemoveAt(q, i) == SubSeq(q, 1, i - 1) \o SubSeq(q, i + 1, Len(q))

RECURSIVE StartPendingJobs(_)
StartPendingJobs(r) ==
    IF HasFreeSlot(r.current_renders) /\ r.render_queue # <<>>
    THEN LET i == PopIndex(r.render_queue) IN
         StartPendingJobs(
             StartRenderJob([r EXCEPT !.render_queue = RemoveAt(@, i)],
                            r.render_queue[i]))
    ELSE r

\* _monitor_renders, lines 148-155: every job of the snapshot of active_jobs
\* whose process has exited is finalized.
RECURSIVE PollActiveJobs(_, _)
PollActiveJobs(r, ids) ==
    IF ids = {} THEN r
    ELSE LET id == CHOOSE x \in ids : TRUE
             o  == active_jobs[id]
         IN  PollActiveJobs(
                 IF r.jobs[o].process \in Exited
                 THEN HandleJobCompletion(r, o) ELSE r,
                 ids \ {id})

\* One iteration of the loop of _monitor_renders, from sleep to sleep.  The
\* task is created in __init__ only (lines 136-141); once cancelled it takes
\* CancelledError at its sleep, which except Exception does not catch.
MonitorRenders ==
    /\ monitoring_task = "running"
    /\ SetRM(StartPendingJobs(PollActiveJobs(RM, DOMAIN active_jobs)))
    /\ UNCHANGED wfVars

\* submit_render_job: a new RenderJob at the end of the queue.  spawns says
\* whether Popen will succeed when the job is launched; it is read only
\* when the command was built.
SubmitRenderJob(id, quality, spawns) ==
    /\ Len(jobs) < MaxJobs
    /\ spawns \/ BuildsCommand(quality)
    /\ jobs' = Append(jobs, [id |-> id, quality |-> quality, spawns |-> spawns,
                             status |-> "pending", process |-> "none"])
    /\ render_queue' = Append(render_queue, Len(jobs) + 1)
    /\ UNCHANGED <<active_jobs, completed_jobs, current_renders,
                   max_concurrent_renders, monitoring_task, launchOrder, handled,
                   released, wfVars>>

\* The process of a launched job exits: by itself, or, when cancel_job
\* sent it the termination signal, by the signal.
ProcessExit(o, how) ==
    /\ jobs[o].process \in Running
    /\ how = "exit_signal" <=> jobs[o].process = "terminating"
    /\ jobs' = [jobs EXCEPT ![o].process = how]
    /\ UNCHANGED <<render_queue, active_jobs, completed_jobs, current_renders,
                   max_concurrent_renders, monitoring_task, launchOrder, handled,
                   released, wfVars>>

\* cancel_job: the result and the state it leaves.  An active job is sent
\* the termination signal, which a process that has exited ignores; a
\* queued one is removed from the queue.
QueueIndexOf(r, id) ==
    {i \in DOMAIN r.render_queue : r.jobs[r.render_queue[i]].id = id}

cancel_job(r, id) ==
    IF id \in DOMAIN r.active_jobs /\ r.jobs[r.active_jobs[id]].process # "none"
    THEN [ret |-> TRUE,
          rm  |-> [r EXCEPT !.jobs[r.active_jobs[id]].status = "cancelled",
                            !.jobs[r.active_jobs[id]].process =
                                IF @ \in Running THEN "terminating" ELSE @]]
    ELSE IF QueueIndexOf(r, id) # {}
    THEN LET i == CHOOSE i \in QueueIndexOf(r, id) :
                      \A j \in QueueIndexOf(r, id) : i <= j
         IN  [ret |-> TRUE,
              rm  |-> [r EXCEPT !.jobs[r.render_queue[i]].status = "cancelled",
                                !.render_queue = RemoveAt(@, i)]]
    ELSE [ret |-> FALSE, rm |-> r]

CancelJob(id) ==
    /\ cancel_job(RM, id).ret
    /\ SetRM(cancel_job(RM, id).rm)
    /\ UNCHANGED wfVars

\* shutdown, lines 510-519: cancel_job on every key of active_jobs, then the
\* monitor task is cancelled and awaited.
RECURSIVE CancelActiveJobs(_, _)
CancelActiveJobs(r, ids) ==
    IF ids = {} THEN r
    ELSE LET id == CHOOSE x \in ids : TRUE
         IN  CancelActiveJobs(cancel_job(r, id).rm, ids \ {id})

Shutdown ==
    /\ SetTables(CancelActiveJobs(RM, DOMAIN active_jobs))
    /\ monitoring_task' = "cancelled"
    /\ UNCHANGED <<max_concurrent_renders, wfVars>>

\* get_job_status: the table the job id is found in (the running table, the
\* results, the queue, in that order; "none" when the call returns None) and
\* the status of the dict returned.  Only the dict built from a RenderResult
\* has the key output_file.
FirstQueued(r, id) ==
    CHOOSE i \in QueueIndexOf(r, id) : \A j \in QueueIndexOf(r, id) : i <= j

get_job_status(r, id) ==
    IF id \in DOMAIN r.active_jobs
    THEN [table |-> "active_jobs", status |-> r.jobs[r.active_jobs[id]].status]
    ELSE IF id \in DOMAIN r.completed_jobs
    THEN [table |-> "completed_jobs",
          status |-> IF r.completed_jobs[id].success THEN "completed" ELSE "failed"]
    ELSE IF QueueIndexOf(r, id) # {}
    THEN [table |-> "render_queue",
          status |-> r.jobs[r.render_queue[FirstQueued(r, id)]].status]
    ELSE [table |-> "none", status |-> "None"]

(***************************************************************************)
(* cancel_workflow                                                         *)
(***************************************************************************)
\* The id of the render job the video_rendering step submitted.
WorkflowJobId == "render_wf"

CancelWorkflow ==
    /\ wfStatus # "absent"
    /\ IF "render_job_id" \in context
       THEN SetRM(cancel_job(RM, WorkflowJobId).rm)
       ELSE UNCHANGED rmVars
    /\ wfStatus' = "cancelled"
    /\ end_time' = TRUE
    /\ cancelled_at' = IF cancelled_at.returned THEN cancelled_at
                       ELSE [returned |-> TRUE, pc |-> pc,
                             launched |-> executed_steps \cup SeqToSet(ready_steps)]
    /\ UNCHANGED <<content_input, output_files, steps, stepStatus, step_error,
                   step_end_time, step_result,
                   error_message, context, pc,
                   executed_steps, ready_steps, tasks>>

\* get_workflow_status, lines 541-558: the fields of the workflow it
\* reports.  Nothing assigns workflow.output_files after the dataclass
\* default of line 60.
get_workflow_status ==
    [status |-> wfStatus, end_time |-> end_time,
     output_files |-> output_files, error_message |-> error_message]

(***************************************************************************)
(* _handle_video_rendering on the render supervisor                        *)
(***************************************************************************)
\* Lines 453-461: quality_map, from the quality named in the requirements
\* to a member of RenderQuality; a name it does not know gives MEDIUM.
quality_map(name) ==
    CASE name = "low_quality"        -> "RenderQuality.LOW"
      [] name = "medium_quality"     -> "RenderQuality.MEDIUM"
      [] name = "high_quality"       -> "RenderQuality.HIGH"
      [] name = "production_quality" -> "RenderQuality.PRODUCTION"
      [] OTHER                       -> "RenderQuality.MEDIUM"

\* The quality a caller names in the requirements of a workflow.
RequirementQualities == {"medium_quality", "high_quality", "best"}

\* The job of the workflow: the jobs whose id is the one submit_render_job
\* returned to the handler.
WorkflowJobs == {o \in DOMAIN jobs : jobs[o].id = WorkflowJobId}

\* Lines 446-482 up to the first sleep: the step is running, the job is
\* submitted and found pending in the queue.  submit_render_job writes the
\* scene file before it queues the job; when that raises there is no job
\* and the step fails.
VideoRenderingSubmit ==
    /\ NextTaskToStart("video_rendering")
    /\ Suspends("video_rendering", context)
    /\ tasks' = Tail(tasks)
    /\ \/ /\ \E name \in RequirementQualities :
                jobs' = Append(jobs, [id |-> WorkflowJobId,
                                      quality |-> Member(quality_map(name)),
                                      spawns |-> TRUE,
                                      status |-> "pending", process |-> "none"])
          /\ render_queue' = Append(render_queue, Len(jobs) + 1)
          /\ stepStatus' = [stepStatus EXCEPT !["video_rendering"] = "running"]
          /\ UNCHANGED <<step_error, step_end_time, step_result>>
       \/ /\ StepRecorded("video_rendering", "failed")
          /\ UNCHANGED <<jobs, render_queue>>
    /\ UNCHANGED <<content_input, output_files, steps, wfStatus, error_message,
                   end_time, context, pc,
                   executed_steps, ready_steps, cancelled_at, active_jobs,
                   completed_jobs, current_renders, max_concurrent_renders,
                   monitoring_task,
                   launchOrder, handled, released>>

\* Mutant: a job that get_job_status does not find counts as rendered.
PollOutcome_MissingJobCompletes(st) ==
    IF st.table = "none" THEN "completed"
    ELSE IF st.status = "completed"
    THEN IF st.table = "completed_jobs" THEN "completed" ELSE "failed"
    ELSE IF st.status = "failed" THEN "failed"
    ELSE "sleep"

\* Lines 471-482: what one pass of the polling loop does with the dict of
\* get_job_status.  "sleep": the handler goes back to sleep.
PollOutcome(st) ==
    IF st.table = "none" THEN "failed"
    ELSE IF st.status = "completed"
    THEN IF st.table = "completed_jobs" THEN "completed" ELSE "failed"
    ELSE IF st.status = "failed" THEN "failed"
    ELSE "sleep"

\* A pass of the polling loop that ends the handler.  Line 479 sets
\* render_job_id when the status is completed, before line 480 reads
\* output_file.
VideoRenderingPoll ==
    LET st == get_job_status(RM, WorkflowJobId) IN
    /\ "video_rendering" \in StepIds
    /\ stepStatus["video_rendering"] = "running"
    /\ BatchStarted
    /\ WorkflowJobs # {}
    /\ PollOutcome(st) # "sleep"
    /\ StepRecorded("video_rendering", PollOutcome(st))
    /\ UNCHANGED tasks
    /\ context' = IF st.status = "completed"
                  THEN context \cup {"render_job_id"} ELSE context
    /\ UNCHANGED <<content_input, output_files, steps, wfStatus, error_message,
                   end_time, pc,
                   executed_steps, ready_steps, cancelled_at, rmVars>>

(***************************************************************************)
(* Specifications                                                          *)
(***************************************************************************)
NoMessage == [kind |-> "none", names |-> {}]
NoCancel == [returned |-> FALSE, pc |-> "none", launched |-> {}]

\* A RenderManager just constructed.
InitRM ==
    /\ jobs = <<>>
    /\ render_queue = <<>>
    /\ active_jobs = <<>>
    /\ completed_jobs = <<>>
    /\ current_renders = 0
    /\ max_concurrent_renders \in 1..MaxLimit
    /\ monitoring_task = "running"
    /\ launchOrder = <<>>
    /\ handled = {}
    /\ released = {}

\* A WorkflowEngine with no workflow.
NoWorkflow ==
    /\ content_input = NoInput
    /\ output_files = <<>>
    /\ steps = <<>>
    /\ stepStatus = <<>>
    /\ step_error = <<>>
    /\ step_end_time = <<>>
    /\ step_result = <<>>
    /\ wfStatus = "absent"
    /\ error_message = NoMessage
    /\ end_time = FALSE
    /\ context = {}
    /\ pc = "none"
    /\ executed_steps = {}
    /\ ready_steps = <<>>
    /\ tasks = <<>>
    /\ cancelled_at = NoCancel

\* create_video_workflow has returned: the workflow is created with every
\* step pending, and the task of _execute_workflow is scheduled (line 217).
WorkflowCreated ==
    /\ content_input \in ContentInputs \cup {NoInput}
    /\ steps \in IF content_input = NoInput THEN OtherGraphs
                 ELSE {create_video_workflow(content_input)}
    /\ output_files = <<>>
    /\ stepStatus = [s \in StepIds |-> "pending"]
    /\ step_error = [s \in StepIds |-> FALSE]
    /\ step_end_time = [s \in StepIds |-> FALSE]
    /\ step_result = [s \in StepIds |-> None]
    /\ wfStatus = "created"
    /\ error_message = NoMessage
    /\ end_time = FALSE
    /\ context = {}
    /\ pc = "scheduled"
    /\ executed_steps = {}
    /\ ready_steps = <<>>
    /\ tasks = <<>>
    /\ cancelled_at = NoCancel

\* The scheduler, with the render supervisor behind the video_rendering
\* handler.
InitWF == WorkflowCreated /\ InitRM /\ max_concurrent_renders = MaxLimit

NextWF ==
    \/ ExecuteWorkflowStart
    \/ ExecuteWorkflowResume
    \/ \E s \in StepIds : ExecuteStepBegin(s)
    \/ \E s \in StepIds : ExecuteStepEnd(s)
    \/ \E s \in StepIds : ExecuteStepWhole(s)
    \/ CancelWorkflow

SpecWF == InitWF /\ [][NextWF]_vars

\* The scheduling of the event loop: a task that can run does run, and a
\* handler returns or raises in finite time.
FairWF ==
    /\ WF_vars(ExecuteWorkflowStart)
    /\ WF_vars(ExecuteWorkflowResume)
    /\ WF_vars(\E s \in StepIds : ExecuteStepBegin(s))
    /\ WF_vars(\E s \in StepIds : ExecuteStepEnd(s))
    /\ WF_vars(\E s \in StepIds : ExecuteStepWhole(s))

FairSpecWF == SpecWF /\ FairWF

\* The render supervisor alone.
InitSup == NoWorkflow /\ InitRM

NextSup ==
    \/ \E id \in JobIds, q \in SubmitQualities, sp \in BOOLEAN :
           SubmitRenderJob(id, q, sp)
    \/ MonitorRenders
    \/ \E o \in DOMAIN jobs, how \in Exited : ProcessExit(o, how)
    \/ \E id \in JobIds : CancelJob(id)

SpecSup == InitSup /\ [][NextSup]_vars

\* The render supervisor and its shutdown.  shutdown() is called once, when
\* the application stops; the callers of the supervisor may go on.
NextShutdown ==
    \/ NextSup
    \/ monitoring_task = "running" /\ Shutdown

SpecShutdown == InitSup /\ [][NextShutdown]_vars

\* A built-in workflow on the render supervisor: the video_rendering handler
\* submits its job and polls it, the monitor task ticks.  The job's quality
\* is a member of RenderQuality, so no tick gives it a process.
InitBridge == WorkflowCreated /\ IsBuiltin /\ InitRM

NextBridge ==
    \/ ExecuteWorkflowStart
    \/ ExecuteWorkflowResume
    \/ \E s \in StepIds \ {"video_rendering"} : ExecuteStepBegin(s)
    \/ \E s \in StepIds \ {"video_rendering"} : ExecuteStepEnd(s)
    \/ \E s \in StepIds : ExecuteStepWhole(s)
    \/ VideoRenderingSubmit
    \/ VideoRenderingPoll
    \/ MonitorRenders
    \/ CancelWorkflow

SpecBridge == InitBridge /\ [][NextBridge]_vars

\* The same with the two other callers of the supervisor in main.py: the
\* route that cancels a render job by its id (line 336) and the shutdown of
\* the application (line 142).
NextService ==
    \/ NextBridge
    \/ CancelJob(WorkflowJobId)
    \/ monitoring_task = "running" /\ Shutdown

SpecService == InitBridge /\ [][NextService]_vars

\* The event loop runs the polling handler and, until it is cancelled, the
\* monitor task again and again.
FairService ==
    /\ WF_vars(VideoRenderingPoll)
    /\ WF_vars(MonitorRenders)

FairSpecService == SpecService /\ FairService


\* The render supervisor with jobs whose ids are generated (line 174: the
\* clock in milliseconds, here one id per submission), a monitor task that
\* keeps ticking and processes that exit in finite time.
GeneratedIds == <<"render_1", "render_2", "render_3">>

SubmitGenerated ==
    /\ Len(jobs) < Len(GeneratedIds)
    /\ \E q \in SubmitQualities, sp \in BOOLEAN :
           SubmitRenderJob(GeneratedIds[Len(jobs) + 1], q, sp)

NextQueue ==
    \/ SubmitGenerated
    \/ MonitorRenders
    \/ \E o \in DOMAIN jobs, how \in Exited : ProcessExit(o, how)

FairQueue ==
    /\ WF_vars(MonitorRenders)
    /\ \A o \in 1..Len(GeneratedIds) :
           WF_vars(o \in DOMAIN jobs /\ \E how \in Exited : ProcessExit(o, how))

FairSpecQueue == InitSup /\ [][NextQueue]_vars /\ FairQueue

(***************************************************************************)
(* Properties of the workflow scheduler                                    *)
(***************************************************************************)
cancel_returned == cancelled_at.returned

\* Every dependency names a step of the graph and no steps depend on each
\* other in a cycle.
WellFormed ==
    /\ \A s \in StepIds : StepDeps(s) \subseteq StepIds
    /\ ~ \E S \in SUBSET StepIds :
            S # {} /\ \A s \in S : StepDeps(s) \cap S # {}

AllStepsEnded == \A s \in StepIds : stepStatus[s] \in {"completed", "failed"}

\* C1: the workflow is completed only if every step is completed, and a
\* workflow the scheduler has finished with a failed step is failed.
C1_CompletedOnlyIfAllCompleted ==
    /\ wfStatus = "completed" => \A s \in StepIds : stepStatus[s] = "completed"
    /\ (pc = "done" /\ FailedSteps # {} /\ ~cancel_returned) => wfStatus = "failed"

\* C2: a step leaves pending (line 292 sets it running) only in a state
\* where every step of its dependency list is completed.
C2_StartsOnlyAfterCompletedDeps ==
    [][\A s \in StepIds :
          (stepStatus[s] = "pending" /\ stepStatus'[s] # "pending")
              => \A d \in StepDeps(s) : d \in StepIds /\ stepStatus[d] = "completed"]_vars

\* C3: when the scheduler has finished a built-in workflow of which a step
\* failed, the workflow is failed and its error message names every failed
\* step.
C3_FailedStepFailsWorkflow ==
    (IsBuiltin /\ pc = "done" /\ FailedSteps # {} /\ ~cancel_returned)
        => /\ wfStatus = "failed"
           /\ error_message.kind = "steps_failed"
           /\ FailedSteps \subseteq error_message.names

\* C7: on a well-formed graph the scheduler ends, and from then on every
\* step is completed or failed, none pending or running.
C7_TerminatesAllStepsEnded ==
    WellFormed => <>[](pc = "done" /\ AllStepsEnded)

C7_Witness ==
    /\ WellFormed /\ pc = "done" /\ AllStepsEnded /\ ~cancel_returned
    /\ \E s, t \in StepIds : stepStatus[s] = "failed" /\ stepStatus[t] = "completed"
                             /\ s \in StepDeps(t)

\* C8: on a graph with a dependency cycle or a dependency that names no
\* step, the scheduler ends; the pass of the loop that ends it sets the
\* workflow failed, with the deadlock message when no step is failed, and
\* leaves the steps it could not execute pending.
C8_DeadlockFailsWorkflow ==
    /\ [][(~WellFormed /\ pc # "done" /\ pc' = "done")
             => /\ wfStatus' = "failed"
                /\ error_message'.kind =
                       IF FailedSteps = {} THEN "deadlock" ELSE "steps_failed"
                /\ StepIds \ executed_steps' # {}
                /\ \A s \in StepIds \ executed_steps' : stepStatus'[s] = "pending"]_vars
    /\ (~WellFormed => <>(pc = "done"))

C8_Witness ==
    /\ ~WellFormed /\ pc = "done" /\ wfStatus = "failed"
    /\ error_message.kind = "deadlock"
    /\ \E s, t \in StepIds : stepStatus[s] = "completed" /\ stepStatus[t] = "pending"

\* C9: once cancel_workflow has returned True for a workflow that was being
\* executed, no step that had not been launched by then leaves pending.
C9_NoStepStartsAfterCancel ==
    [][\A s \in StepIds :
          (/\ cancelled_at.returned
           /\ cancelled_at.pc = "gather"
           /\ s \notin cancelled_at.launched
           /\ stepStatus[s] = "pending")
              => stepStatus'[s] = "pending"]_vars

\* C10: once cancel_workflow has returned True the workflow is cancelled in
\* every later state.
C10_CancelledIsTerminal ==
    cancel_returned => wfStatus = "cancelled"

Terminal == {"completed", "failed", "cancelled"}

\* C16: end_time, and with it total_duration = end_time - start_time, is
\* set only while the workflow is completed, failed or cancelled: no state
\* has status created or running and end_time set.
C16_EndTimeOnlyWhenTerminal ==
    end_time => wfStatus \in Terminal

\* C17: the steps that are ready in the same iteration are all launched
\* before the await of any of them returns: when a running step ends, no
\* step of its ready set is still pending, so the steps whose handlers
\* suspend are running at the same time.
C17_ReadySetLaunchedTogether ==
    [][\A s \in StepIds :
          (stepStatus[s] = "running" /\ stepStatus'[s] # "running")
              => \A t \in SeqToSet(ready_steps) : stepStatus[t] # "pending"]_vars

C17_Witness ==
    \E s, t \in SeqToSet(ready_steps) :
        /\ s # t
        /\ s \notin StepDeps(t) /\ t \notin StepDeps(s)
        /\ stepStatus[s] = "running" /\ stepStatus[t] = "running"

Launched(s) == stepStatus[s] = "pending" /\ stepStatus'[s] # "pending"
Ended(s) == stepStatus[s] \in {"completed", "failed"}
ContentStep == steps[1].id

\* C18 as stated: in a built-in workflow, template_selection is launched
\* after the content step completed from a ready set that holds
\* parameter_preparation too, and scene_creation is launched only when
\* both are completed.
C18_TemplateAndParametersTogether ==
    [][IsBuiltin =>
          /\ (Launched("template_selection") /\ stepStatus[ContentStep] = "completed")
                 => "parameter_preparation" \in SeqToSet(ready_steps)
          /\ Launched("scene_creation")
                 => /\ stepStatus["template_selection"] = "completed"
                    /\ stepStatus["parameter_preparation"] = "completed"]_vars

\* C18 amended: in a built-in workflow, template_selection is launched
\* alone; parameter_preparation is launched alone and only after
\* template_selection has ended; scene_creation is launched only after
\* both have ended, completed or failed.
C18_TemplateThenParameters ==
    [][IsBuiltin =>
          /\ Launched("template_selection")
                 => ready_steps = <<"template_selection">>
          /\ Launched("parameter_preparation")
                 => /\ ready_steps = <<"parameter_preparation">>
                    /\ Ended("template_selection")
          /\ Launched("scene_creation")
                 => Ended("template_selection") /\ Ended("parameter_preparation")]_vars

C18_Witness ==
    /\ IsBuiltin
    /\ stepStatus[ContentStep] = "completed"
    /\ stepStatus["template_selection"] = "completed"
    /\ stepStatus["parameter_preparation"] = "completed"
    /\ stepStatus["scene_creation"] # "pending"

\* C19: a handler that raises fails its own step and nothing else: the
\* step is failed with its error and its end time set, the other steps and
\* the workflow are as they were, and the scheduler's task goes on: it ends
\* only in a pass of its own loop, after every step of the ready set ended.
C19_StepFailureIsLocal ==
    [][/\ \A s \in StepIds :
             stepStatus'[s] = "failed" => step_error'[s] /\ step_end_time'[s]
       /\ \A s \in StepIds :
             (stepStatus[s] # "failed" /\ stepStatus'[s] = "failed")
                 => /\ \A t \in StepIds \ {s} : stepStatus'[t] = stepStatus[t]
                    /\ pc' = pc
                    /\ wfStatus' = wfStatus
                    /\ error_message' = error_message
       /\ (pc # "done" /\ pc' = "done")
             => \A s \in SeqToSet(ready_steps) : Ended(s)]_vars

C19_Witness ==
    \E s, t \in StepIds :
        /\ StepDeps(s) = {} /\ StepDeps(t) = {} /\ s # t
        /\ stepStatus[s] = "failed" /\ step_error[s] /\ step_end_time[s]
        /\ stepStatus[t] = "completed" /\ ~step_error[t]
        /\ pc = "done" /\ error_message = NoMessage

\* The task of step s runs its first stretch: line 292, then the handler
\* is called.
Invoked(s) == tasks # <<>> /\ Head(tasks) = s /\ tasks' = Tail(tasks)

\* C20: the handler of a step is called only while the step is pending, a
\* step that has left pending never is pending again, and a step that is
\* completed or failed stays as it is: no handler is called twice.
C20_NoRetry ==
    [][\A s \in StepIds :
          /\ Invoked(s) => stepStatus[s] = "pending"
          /\ stepStatus[s] # "pending" => stepStatus'[s] # "pending"
          /\ Ended(s) => stepStatus'[s] = stepStatus[s]]_vars

C20_Witness ==
    /\ pc = "done" /\ wfStatus = "completed"
    /\ \E s, t \in StepIds :
          /\ s \in StepDeps(t)
          /\ stepStatus[s] = "failed" /\ stepStatus[t] = "completed"

(***************************************************************************)
(* Properties of the render supervisor                                     *)
(***************************************************************************)
\* The jobs whose process was launched and which have not been finalized.
RunningJobs ==
    {o \in DOMAIN jobs : jobs[o].process # "none" /\ o \notin released}

\* C4: the number of jobs launched and not yet finalized is at most
\* max_concurrent_renders.
C4_RunningAtMostLimit ==
    Cardinality(RunningJobs) <= max_concurrent_renders

C4_Witness ==
    /\ Cardinality(RunningJobs) = max_concurrent_renders
    /\ render_queue # <<>>
    /\ released # {}

\* C5: jobs are launched in the order they were submitted: the jobs
\* _start_render_job took, in that order, are in submission order.
C5_LaunchedInSubmissionOrder ==
    \A i, j \in DOMAIN launchOrder : i < j => launchOrder[i] < launchOrder[j]

C5_Witness ==
    /\ Len(launchOrder) >= 2
    /\ \A i \in DOMAIN launchOrder : jobs[launchOrder[i]].process # "none"
    /\ \E c \in DOMAIN jobs :
          /\ jobs[c].status = "cancelled"
          /\ c \notin Range(launchOrder)
          /\ launchOrder[1] < c /\ c < launchOrder[2]

\* C6: a job whose process has exited and which _handle_job_completion has
\* finalized is out of the running table and has given its slot back,
\* whatever the exit code and whether or not there is an output file.
C6_FinalizationFreesSlot ==
    \A o \in handled :
        jobs[o].process \in Exited
            => o \in released /\ o \notin Range(active_jobs)

\* No other job was submitted with the id of job o.
UniqueId(o) == \A p \in DOMAIN jobs : jobs[p].id = jobs[o].id => p = o

\* The jobs cancel_job took out of the queue: cancelled without ever having
\* had a process.
CancelledInQueue ==
    {o \in DOMAIN jobs : jobs[o].status = "cancelled" /\ jobs[o].process = "none"}

\* C12: a job for which cancel_job returned True while it was queued is
\* never launched, and get_job_status reports it with status cancelled.
C12_CancelledQueuedJobReported ==
    \A o \in CancelledInQueue :
        UniqueId(o) =>
            /\ o \notin Range(launchOrder)
            /\ o \notin Range(active_jobs)
            /\ get_job_status(RM, jobs[o].id).status = "cancelled"

\* The jobs whose launch failed: finalized by the except of line 252, with
\* no process.
LaunchFailed == {o \in handled : jobs[o].process = "none"}

\* C13: a job whose launch failed has given its slot back, is launched
\* once only, and get_job_status reports it with status failed.
C13_LaunchFailureReportedFailed ==
    \A o \in LaunchFailed :
        UniqueId(o) =>
            /\ o \in released
            /\ o \notin Range(render_queue) /\ o \notin Range(active_jobs)
            /\ Cardinality({i \in DOMAIN launchOrder : launchOrder[i] = o}) = 1
            /\ get_job_status(RM, jobs[o].id).status = "failed"

\* C14: every job that was launched and has ended (its launch failed, or
\* its process exited and a tick finalized it) has a RenderResult under its
\* id, and the RenderResult recorded for a job stays as it is.
C14_OneResultPerEndedJob ==
    [][/\ \A o \in handled' :
             UniqueId(o)' => jobs'[o].id \in DOMAIN completed_jobs'
       /\ \A o \in DOMAIN jobs :
             (UniqueId(o)' /\ jobs[o].id \in DOMAIN completed_jobs)
                 => /\ jobs[o].id \in DOMAIN completed_jobs'
                    /\ completed_jobs'[jobs[o].id] = completed_jobs[jobs[o].id]]_vars

\* C15: a job that cancel_job cancelled while its process was running,
\* and that a tick finalized after the process had exited, is reported with
\* status cancelled, not failed or completed.
C15_CancelledRunningJobStaysCancelled ==
    \A o \in handled :
        (jobs[o].process = "exit_signal" /\ UniqueId(o))
            => get_job_status(RM, jobs[o].id).status = "cancelled"

(***************************************************************************)
(* Properties of a workflow on the render supervisor                       *)
(***************************************************************************)
\* The job of the workflow is queued, or running with a process.
WorkflowJobLive(o) ==
    \/ o \in Range(render_queue)
    \/ o \in Range(active_jobs) /\ jobs[o].process \in Running

\* C11: a call of cancel_workflow made while the video_rendering step is
\* running and the job it submitted is queued or running calls cancel_job
\* on that job: the call leaves the job cancelled.
C11_CancelWorkflowCancelsJob ==
    [][\A o \in WorkflowJobs :
          (/\ CancelWorkflow
           /\ stepStatus["video_rendering"] = "running"
           /\ WorkflowJobLive(o))
              => jobs'[o].status = "cancelled"]_vars

(***************************************************************************)
(* Properties of the render supervisor that keeps ticking                  *)
(***************************************************************************)
\* C21: with max_concurrent_renders = 1 the jobs are finalized one at a
\* time in submission order: a job is launched only when every job
\* submitted before it has been finalized, and every job submitted is
\* finalized in the end.
C21_OneAtATimeInOrder ==
    /\ [](max_concurrent_renders = 1 =>
             \A o \in Range(launchOrder) : \A p \in 1..(o - 1) : p \in handled)
    /\ <>[](max_concurrent_renders = 1 => \A o \in DOMAIN jobs : o \in handled)

\* C24: every job that was submitted and not cancelled is launched in the
\* end, when the limit is at least 1, the monitor keeps ticking and every
\* launched process exits: no outcome of a job keeps a slot for ever.
C24_EverySubmittedJobLaunched ==
    <>[](\A o \in DOMAIN jobs :
            jobs[o].status # "cancelled" /\ max_concurrent_renders >= 1
                => o \in Range(launchOrder))

(***************************************************************************)
(* Properties of shutdown                                                  *)
(***************************************************************************)
\* C22: after shutdown() has returned every job that was running at the
\* call has been sent a cancel (none is left running without the
\* termination signal), the monitor is stopped, and no job is launched any
\* more.
C22_ShutdownStopsEverything ==
    /\ [](monitoring_task = "cancelled" =>
             \A o \in DOMAIN jobs : jobs[o].process # "alive")
    /\ [][monitoring_task = "cancelled" =>
             monitoring_task' = "cancelled" /\ launchOrder' = launchOrder]_vars

(***************************************************************************)
(* Properties of create_video_workflow and get_workflow_status             *)
(***************************************************************************)
SharedSteps ==
    {"template_selection", "parameter_preparation", "scene_creation",
     "video_rendering", "post_processing"}

\* C23: the graph follows the shape of the input: a string gives
\* content_generation and no content_preparation, a dict gives
\* content_preparation and no content_generation, and both hold the five
\* shared steps.
C23_GraphFollowsInputShape ==
    /\ isinstance(content_input, "str") =>
           /\ "content_generation" \in StepIds
           /\ "content_preparation" \notin StepIds
           /\ SharedSteps \subseteq StepIds
    /\ isinstance(content_input, "dict") =>
           /\ "content_preparation" \in StepIds
           /\ "content_generation" \notin StepIds
           /\ SharedSteps \subseteq StepIds

C23_Witness ==
    /\ isinstance(content_input, "dict")
    /\ stepStatus["content_preparation"] = "completed"
    /\ pc = "done"

\* C28: once a workflow is completed, the output_files that
\* get_workflow_status reports are the list its post_processing step
\* returned, and are not empty when that list is not.
C28_OutputFilesReported ==
    (IsBuiltin /\ wfStatus = "completed" /\ pc = "done") =>
        /\ get_workflow_status.output_files = step_result["post_processing"].value
        /\ step_result["post_processing"].value # <<>> =>
               get_workflow_status.output_files # <<>>

(***************************************************************************)
(* Properties of the polling loop of video_rendering                       *)
(***************************************************************************)
\* The render job of the workflow has resolved: it was finalized (which
\* covers a launch that failed), it was cancelled, or the supervisor was
\* shut down.
JobResolved ==
    /\ WorkflowJobs # {}
    /\ \/ \E o \in WorkflowJobs : o \in handled \/ jobs[o].status = "cancelled"
       \/ monitoring_task = "cancelled"

\* C25: once its render job has resolved, the video_rendering step leaves
\* running in the end: it does not poll for ever.
C25_PollingEnds ==
    <>[] ~(IsBuiltin /\ stepStatus["video_rendering"] = "running" /\ JobResolved)

\* The render job of the workflow was finalized with exit code 0 and an
\* output file, and its RenderResult is the one recorded under its id.
FinalizedSuccessful ==
    /\ \E o \in WorkflowJobs : o \in handled /\ jobs[o].process = "exit0_file"
    /\ WorkflowJobId \in DOMAIN completed_jobs
    /\ completed_jobs[WorkflowJobId].success

FinalizedFailed ==
    \E o \in WorkflowJobs : o \in handled /\ jobs[o].status = "failed"

C27_PresetLookupDefined ==
    \A o \in Range(launchOrder) :
        (jobs[o].quality \in {Member(m) : m \in RenderQuality} /\ jobs[o].spawns)
            => /\ BuildsCommand(jobs[o].quality)
               /\ o \notin LaunchFailed

\* C29: current_renders is the number of entries of active_jobs and is
\* never negative, also when two jobs have the same id.
C29_CounterMatchesTable ==
    /\ current_renders = Cardinality(DOMAIN active_jobs)
    /\ current_renders >= 0

(***************************************************************************)
(* Properties of the workflow's final states                               *)
(***************************************************************************)
\* C30: completed and failed are absorbing: once the scheduler has set one
\* of them, no operation changes the status or the end time (from which
\* total_duration is computed on the same lines).
C30_FinalStatesAbsorbing ==
    [][(pc = "done" /\ wfStatus \in {"completed", "failed"})
          => (wfStatus' = wfStatus /\ end_time' = end_time)]_vars
====
